---- MODULE Spec2Model ----
(***************************************************************************)
(* Resilience layer of the trading bot: ErrorHandler                       *)
(* (src/src/error_handler.py), RecoveryManager                             *)
(* (src/src/recovery_manager.py) and ConfigManager                         *)
(* (src/config_manager.py).                                                *)
(*                                                                         *)
(* Time in the ErrorHandler part is counted in ticks of 15 minutes: the    *)
(* one-hour window horizon is 4 ticks and the default breaker cool-down of *)
(* 15 minutes is 1 tick.  The several datetime.now() reads inside one      *)
(* handle_error call, and the seconds its recovery strategies sleep, are   *)
(* far below one tick, so one call reads a single value of now.            *)
(*                                                                         *)
(* SpecEH follows one error category at a time through many calls of a     *)
(* handle_error inside which nothing raises.  SpecEHPair follows two       *)
(* categories and also calls _should_circuit_break on its own.             *)
(* SpecEHFaults lets the logger, the pruning, the threshold comparison,    *)
(* the recovery strategy or the alert raise inside handle_error.           *)
(* SpecThreads runs handle_error from parallel threads, one statement of   *)
(* _update_error_tracking at a time.  SpecClock sets the system clock      *)
(* between the calls and carries along the handler that the same calls     *)
(* give on a clock nobody sets.  SpecEHPolling assumes that time passes    *)
(* and that the caller keeps asking is_circuit_breaker_active; SpecEHHealth*)
(* adds get_system_health.  SpecNetwork calls the network recovery         *)
(* strategy on error records of any retry_count.                           *)
(*                                                                         *)
(* SpecRMConcurrent makes RecoveryManager calls while attempt_recovery     *)
(* calls are suspended in their strategy, and remembers the calls.         *)
(* SpecOwner calls a RecoveryManager and an ErrorHandler in any order and  *)
(* remembers the operation called last.                                    *)
(*                                                                         *)
(* SpecRetry runs the wrappers of retry_with_backoff and                   *)
(* async_retry_with_backoff on the same arguments and the same wrapped     *)
(* operation.  base_delay is a delay: zero or more time units.             *)
(* SpecRetryFair assumes in addition that a wrapper that can take a step   *)
(* takes it.                                                               *)
(*                                                                         *)
(* SpecSnap is the snapshot store of the RecoveryManager.  Its clock       *)
(* counts half seconds: a file name holds the whole second, so two         *)
(* snapshots taken in one second share a file.  ctime has the clock's      *)
(* resolution.                                                             *)
(*                                                                         *)
(* SpecConfig builds ConfigManager objects on configuration files that     *)
(* are written, replaced and removed from outside.                         *)
(***************************************************************************)
EXTENDS Integers, Sequences, FiniteSets, TLC

(* ------------------------------ bounds -------------------------------- *)

\* handle_error calls in one behaviour
MaxCalls == 6

\* last tick of the ErrorHandler clock
MaxTime == 5

\* recorded errors in one behaviour of SpecEHFaults
MaxFaultCalls == 3

\* handle_error calls in a run with clock adjustments
MaxClockCalls == 3

\* how far the wall clock is set from the time elapsed, in ticks
MaxSkew == 1

\* handle_error calls in a run of both components
MaxOwnerCalls == 1

\* snapshots taken in a run of both components
MaxOwnerSnapshots == 1

\* greatest retry_count of an error record
MaxRetryCount == 7

\* handle_error calls in a run with two categories
MaxPairCalls == 4

(* ----------------------- ErrorHandler: constants ---------------------- *)

ErrorTypes ==
    {"api_error", "network_error", "data_error", "model_error",
     "trading_error", "system_error", "validation_error"}

ErrorSeverities == {"low", "medium", "high", "critical"}

\* minutes to ticks
Ticks(minutes) == minutes \div 15

\* timedelta(hours=1), in ticks
Horizon == 4

DefaultThreshold == 5

\* circuit_breaker_duration default, in minutes
DefaultBreakerMinutes == 15

\* api_retry_delay default, in seconds
DefaultApiRetryDelay == 5

\* cap of the network strategy's backoff, in seconds
MaxNetworkDelay == 60

\* dict.get(key, default)
Get(d, key, default) == IF key \in DOMAIN d THEN d[key] ELSE default

EmptyDict == [k \in {} |-> 0]

\* The configurations the handler is constructed with: the empty one (every
\* option at its default) and one that sets thresholds and the cool-down.
Configs ==
    { EmptyDict,
      [circuit_breaker |-> [api_error |-> 3, network_error |-> 2],
       circuit_breaker_duration |-> 30] }

VARIABLES
    config,            \* self.config
    now,               \* datetime.now(), in ticks
    error_counts,      \* self.error_counts: type -> list of timestamps
    circuit_breakers,  \* self.circuit_breakers: type -> {activated_at, duration}
    last_errors,       \* self.last_errors: type -> timestamp of the last record
    history,           \* every timestamp _update_error_tracking was given, per type
    eh_last            \* what the last ErrorHandler call did and returned
                       \* (forgotten when time passes)

eh_vars == <<config, now, error_counts, circuit_breakers, last_errors,
             history, eh_last>>

NoCall ==
    [op |-> "none", type |-> "none", severity |-> "none",
     ret |-> FALSE, tripped |-> FALSE, open_before |-> FALSE,
     recovery |-> FALSE, slept |-> 0, alert |-> FALSE, removed |-> FALSE,
     fault |-> "none", raised |-> FALSE, info |-> EmptyDict,
     health |-> EmptyDict]

\* issubclass(class, base)
IsSubclass(class, base) ==
    \/ class = base
    \/ base = "Exception"
    \/ base = "OSError" /\ class \in {"FileNotFoundError", "PermissionError"}

\* nothing raises inside handle_error
NoFault == [stage |-> "none", class |-> "None"]

\* what can raise inside handle_error, and where: the logger in _log_error,
\* the comparison of timestamps while _update_error_tracking prunes, a
\* threshold in config that is no number in _should_circuit_break, the
\* recovery strategy (a delay in config that cannot be slept), the logger
\* in _send_alert
HandlerFaults ==
    { [stage |-> "log_error", class |-> "OSError"],
      [stage |-> "update_error_tracking", class |-> "TypeError"],
      [stage |-> "should_circuit_break", class |-> "TypeError"],
      [stage |-> "recovery", class |-> "ValueError"],
      [stage |-> "alert", class |-> "OSError"] }

(* ----------------------- ErrorHandler: operations --------------------- *)

\* _update_error_tracking appending without pruning
update_error_tracking_unpruned(counts, error_type, timestamp, t) ==
    LET old == Get(counts, error_type, <<>>)
    IN  [k \in DOMAIN counts \cup {error_type} |->
            IF k = error_type THEN Append(old, timestamp) ELSE counts[k]]

\* _update_error_tracking: the new error_counts
update_error_tracking(counts, error_type, timestamp, t) ==
    LET old == Get(counts, error_type, <<>>)
        appended == Append(old, timestamp)
        cutoff_time == t - Horizon
        kept == SelectSeq(appended, LAMBDA ts : ts > cutoff_time)
    IN  [k \in DOMAIN counts \cup {error_type} |->
            IF k = error_type THEN kept ELSE counts[k]]

error_threshold(cfg, error_type) ==
    Get(Get(cfg, "circuit_breaker", EmptyDict), error_type, DefaultThreshold)

\* _should_circuit_break comparing with > instead of >=
should_circuit_break_strict(counts, cfg, error_type) ==
    IF error_type \notin DOMAIN counts
    THEN FALSE
    ELSE Len(counts[error_type]) > error_threshold(cfg, error_type)

\* _should_circuit_break
should_circuit_break(counts, cfg, error_type) ==
    IF error_type \notin DOMAIN counts
    THEN FALSE
    ELSE Len(counts[error_type]) >= error_threshold(cfg, error_type)

\* _activate_circuit_breaker keeping one breaker for all categories
activate_circuit_breaker_all(breakers, cfg, error_type, t) ==
    [k \in ErrorTypes |->
        [activated_at |-> t,
         duration |-> Ticks(Get(cfg, "circuit_breaker_duration",
                                DefaultBreakerMinutes))]]

\* _activate_circuit_breaker leaving an entry that exists as it is
activate_circuit_breaker_once(breakers, cfg, error_type, t) ==
    [k \in DOMAIN breakers \cup {error_type} |->
        IF k \in DOMAIN breakers
        THEN breakers[k]
        ELSE [activated_at |-> t,
              duration |-> Ticks(Get(cfg, "circuit_breaker_duration",
                                     DefaultBreakerMinutes))]]

\* _activate_circuit_breaker: the new circuit_breakers
activate_circuit_breaker(breakers, cfg, error_type, t) ==
    [k \in DOMAIN breakers \cup {error_type} |->
        IF k = error_type
        THEN [activated_at |-> t,
              duration |-> Ticks(Get(cfg, "circuit_breaker_duration",
                                     DefaultBreakerMinutes))]
        ELSE breakers[k]]

\* the recovery strategies: <<result, seconds slept>>
recover_from_api_error(cfg) == <<TRUE, Get(cfg, "api_retry_delay", DefaultApiRetryDelay)>>

\* _recover_from_network_error sleeping 2 ** retry_count whatever it is
recover_from_network_error_uncapped(error_info) ==
    <<TRUE, 2 ^ Get(error_info, "retry_count", 0)>>

\* the error_info handle_error builds holds no 'retry_count' key, so
\* retry_count is the default 0 there
recover_from_network_error(error_info) ==
    LET retry_count == Get(error_info, "retry_count", 0)
        p == 2 ^ retry_count
        delay == IF p < MaxNetworkDelay THEN p ELSE MaxNetworkDelay
    IN  <<TRUE, delay>>

recover_from_data_error == <<TRUE, 0>>

recover_from_model_error == <<TRUE, 0>>

\* _recover_from_trading_error reporting success
recover_from_trading_error_success == <<TRUE, 0>>

recover_from_trading_error == <<FALSE, 0>>

recover_from_system_error == <<FALSE, 0>>

recover_from_validation_error == <<TRUE, 0>>

\* _attempt_recovery: dispatch on the strategy table (every ErrorType has one)
attempt_recovery_strategy(cfg, error_type, error_info) ==
    CASE error_type = "api_error" -> recover_from_api_error(cfg)
      [] error_type = "network_error" -> recover_from_network_error(error_info)
      [] error_type = "data_error" -> recover_from_data_error
      [] error_type = "model_error" -> recover_from_model_error
      [] error_type = "trading_error" -> recover_from_trading_error
      [] error_type = "system_error" -> recover_from_system_error
      [] error_type = "validation_error" -> recover_from_validation_error
      [] OTHER -> <<FALSE, 0>>

\* the expiry test comparing with >= instead of >
breaker_expired_at_duration(breaker_info, t) ==
    t - breaker_info.activated_at >= breaker_info.duration

\* the condition is_circuit_breaker_active tests on an existing entry
breaker_expired(breaker_info, t) ==
    t - breaker_info.activated_at > breaker_info.duration

\* a breaker is open: an entry exists and its cool-down has not elapsed
BreakerOpen(breakers, error_type, t) ==
    /\ error_type \in DOMAIN breakers
    /\ ~breaker_expired(breakers[error_type], t)

Calls == LET n[S \in SUBSET ErrorTypes] ==
                 IF S = {} THEN 0
                 ELSE LET c == CHOOSE x \in S : TRUE
                      IN  Len(history[c]) + n[S \ {c}]
         IN  n[ErrorTypes]

\* _update_error_tracking up to the append: the new error_counts
append_error(counts, error_type, timestamp) ==
    [k \in DOMAIN counts \cup {error_type} |->
        IF k = error_type
        THEN Append(Get(counts, error_type, <<>>), timestamp)
        ELSE counts[k]]

\* the except clause of handle_error catching ValueError only
handle_error_except_value_error(class) == class = "ValueError"

\* the except clause of handle_error: except Exception
handle_error_except(class) == IsSubclass(class, "Exception")

\* the except clause of _attempt_recovery: except Exception
attempt_recovery_except(class) == IsSubclass(class, "Exception")

\* handle_error tracking the error only while the category has no breaker
track_error_unless_open(counts, breakers, error_type, timestamp, t) ==
    IF BreakerOpen(breakers, error_type, t)
    THEN counts
    ELSE update_error_tracking(counts, error_type, timestamp, t)

\* the tracking step of handle_error: _update_error_tracking is called
\* before any breaker test, whatever circuit_breakers holds
track_error(counts, breakers, error_type, timestamp, t) ==
    update_error_tracking(counts, error_type, timestamp, t)

\* handle_error(error, error_type, severity, context); fault: what raises
\* during the call, if the call gets there
handle_error(error_type, severity, fault) ==
    LET error_info == [type |-> error_type, severity |-> severity,
                       timestamp |-> now]
        counts == track_error(error_counts, circuit_breakers, error_type,
                              error_info.timestamp, now)
        open_before == BreakerOpen(circuit_breakers, error_type, now)
        call == [NoCall EXCEPT !.op = "handle_error", !.type = error_type,
                    !.severity = severity, !.open_before = open_before]
        \* the call ends in handle_error's except clause, or the error
        \* leaves handle_error
        failed == IF handle_error_except(fault.class)
                  THEN [call EXCEPT !.fault = fault.stage]
                  ELSE [call EXCEPT !.fault = fault.stage, !.raised = TRUE]
        recorded ==
            /\ history' = [history EXCEPT ![error_type] = Append(@, now)]
            /\ last_errors' =
                   [k \in DOMAIN last_errors \cup {error_type} |->
                       IF k = error_type THEN error_info.timestamp
                       ELSE last_errors[k]]
    IN  /\ IF fault.stage = "log_error"
           THEN /\ eh_last' = failed
                /\ UNCHANGED <<history, error_counts, last_errors,
                               circuit_breakers>>
           ELSE IF fault.stage = "update_error_tracking"
           THEN /\ recorded
                /\ error_counts' = append_error(error_counts, error_type,
                                                error_info.timestamp)
                /\ eh_last' = failed
                /\ UNCHANGED circuit_breakers
           ELSE IF fault.stage = "should_circuit_break"
           THEN /\ recorded
                /\ error_counts' = counts
                /\ eh_last' = failed
                /\ UNCHANGED circuit_breakers
           ELSE IF should_circuit_break(counts, config, error_type)
           THEN /\ recorded
                /\ error_counts' = counts
                /\ circuit_breakers' =
                       activate_circuit_breaker(circuit_breakers, config,
                                                error_type, now)
                /\ eh_last' = [call EXCEPT !.tripped = TRUE]
           ELSE LET rec == IF fault.stage = "recovery"
                           THEN IF attempt_recovery_except(fault.class)
                                THEN <<FALSE, 0, FALSE>>
                                ELSE <<FALSE, 0, TRUE>>
                           ELSE attempt_recovery_strategy(config, error_type,
                                    error_info) \o <<FALSE>>
                    alerting == severity \in {"high", "critical"}
                    attempted == [call EXCEPT !.recovery = TRUE,
                                     !.slept = rec[2],
                                     !.fault = IF fault.stage = "recovery"
                                               THEN fault.stage ELSE "none"]
                IN  /\ recorded
                    /\ error_counts' = counts
                    /\ UNCHANGED circuit_breakers
                    /\ eh_last' =
                         IF rec[3]
                         THEN IF handle_error_except(fault.class)
                              THEN attempted
                              ELSE [attempted EXCEPT !.raised = TRUE]
                         ELSE IF alerting /\ fault.stage = "alert"
                         THEN [failed EXCEPT !.recovery = TRUE,
                                  !.slept = rec[2]]
                         ELSE [attempted EXCEPT !.ret = rec[1],
                                  !.alert = alerting]
        /\ UNCHANGED <<config, now>>

\* is_circuit_breaker_active(error_type)
is_circuit_breaker_active(error_type) ==
    /\ IF error_type \notin DOMAIN circuit_breakers
       THEN /\ UNCHANGED circuit_breakers
            /\ eh_last' = [NoCall EXCEPT !.op = "is_circuit_breaker_active",
                              !.type = error_type]
       ELSE IF breaker_expired(circuit_breakers[error_type], now)
       THEN /\ circuit_breakers' =
                   [k \in DOMAIN circuit_breakers \ {error_type} |->
                       circuit_breakers[k]]
            /\ eh_last' = [NoCall EXCEPT !.op = "is_circuit_breaker_active",
                              !.type = error_type, !.removed = TRUE]
       ELSE /\ UNCHANGED circuit_breakers
            /\ eh_last' = [NoCall EXCEPT !.op = "is_circuit_breaker_active",
                              !.type = error_type, !.ret = TRUE]
    /\ UNCHANGED <<config, now, error_counts, last_errors, history>>

\* time passes
\* the error records _recover_from_network_error is called with: the
\* record handle_error builds, without or with a 'retry_count'
NetworkErrorInfos ==
    LET built == {[type |-> "network_error", severity |-> s,
                   timestamp |-> now] : s \in ErrorSeverities}
    IN  built \cup
        {[type |-> i.type, severity |-> i.severity, timestamp |-> i.timestamp,
          retry_count |-> n] : i \in built, n \in 0 .. MaxRetryCount}

\* a call of _recover_from_network_error(error_info) on its own
recover_from_network_error_call(error_info) ==
    LET rec == recover_from_network_error(error_info)
    IN  /\ eh_last' = [NoCall EXCEPT
                          !.op = "recover_from_network_error",
                          !.type = "network_error", !.info = error_info,
                          !.ret = rec[1], !.slept = rec[2]]
        /\ UNCHANGED <<config, now, error_counts, circuit_breakers,
                       last_errors, history>>

\* _should_circuit_break creating the window it does not find
should_circuit_break_setdefault(counts, error_type) ==
    [k \in DOMAIN counts \cup {error_type} |-> Get(counts, k, <<>>)]

\* error_counts after _should_circuit_break: the membership test, the
\* subscript read and len() leave the dict and its lists as they are
should_circuit_break_counts(counts, error_type) == counts

\* a call of _should_circuit_break(error_type) on its own
should_circuit_break_call(error_type) ==
    /\ error_counts' = should_circuit_break_counts(error_counts, error_type)
    /\ eh_last' = [NoCall EXCEPT
                      !.op = "should_circuit_break", !.type = error_type,
                      !.ret = should_circuit_break(error_counts, config,
                                                   error_type)]
    /\ UNCHANGED <<config, now, circuit_breakers, last_errors, history>>

\* get_system_health(): the dict it returns
get_system_health ==
    /\ eh_last' =
          [NoCall EXCEPT
              !.op = "get_system_health",
              !.health =
                  [error_counts |->
                       [k \in DOMAIN error_counts |-> Len(error_counts[k])],
                   active_circuit_breakers |-> DOMAIN circuit_breakers,
                   last_errors |-> last_errors,
                   timestamp |-> now]]
    /\ UNCHANGED <<config, now, error_counts, circuit_breakers, last_errors,
                   history>>

Tick ==
    /\ now < MaxTime
    /\ now' = now + 1
    /\ eh_last' = NoCall
    /\ UNCHANGED <<config, error_counts, circuit_breakers, last_errors,
                   history>>


(* -------------------- handle_error in parallel threads ---------------- *)

\* handle_error calls running in parallel threads
NumThreads == 2

\* the category the parallel calls report
ThreadCategory == "network_error"

\* a thread about to call handle_error
ReadyThread == [pc |-> "ready", kept |-> <<>>]

VARIABLES
    threads   \* per thread: where its handle_error call stands, and the
              \* list its comprehension in _update_error_tracking has built

th_vars == <<threads>>

\* the thread has logged the error and tests
\* `error_type not in self.error_counts`
thread_check(i) ==
    /\ threads[i].pc = "ready"
    /\ threads' = [threads EXCEPT ![i].pc =
                      IF ThreadCategory \in DOMAIN error_counts
                      THEN "append" ELSE "init"]
    /\ UNCHANGED eh_vars

\* self.error_counts[error_type] = []
thread_init(i) ==
    /\ threads[i].pc = "init"
    /\ error_counts' =
           [k \in DOMAIN error_counts \cup {ThreadCategory} |->
               IF k = ThreadCategory THEN <<>> ELSE error_counts[k]]
    /\ threads' = [threads EXCEPT ![i].pc = "append"]
    /\ UNCHANGED <<config, now, circuit_breakers, last_errors, history,
                   eh_last>>

\* self.error_counts[error_type].append(...) and the last_errors entry
thread_append(i) ==
    /\ threads[i].pc = "append"
    /\ error_counts' = append_error(error_counts, ThreadCategory, now)
    /\ history' = [history EXCEPT ![ThreadCategory] = Append(@, now)]
    /\ last_errors' =
           [k \in DOMAIN last_errors \cup {ThreadCategory} |->
               IF k = ThreadCategory THEN now ELSE last_errors[k]]
    /\ threads' = [threads EXCEPT ![i].pc = "prune"]
    /\ UNCHANGED <<config, now, circuit_breakers, eh_last>>

\* the list comprehension over self.error_counts[error_type] builds the
\* pruned list
thread_prune(i) ==
    /\ threads[i].pc = "prune"
    /\ threads' = [threads EXCEPT ![i].pc = "assign",
                      ![i].kept =
                          SelectSeq(error_counts[ThreadCategory],
                                    LAMBDA ts : ts > now - Horizon)]
    /\ UNCHANGED eh_vars

\* self.error_counts[error_type] = <the pruned list>
thread_assign(i) ==
    /\ threads[i].pc = "assign"
    /\ error_counts' = [error_counts EXCEPT ![ThreadCategory] =
                           threads[i].kept]
    /\ threads' = [threads EXCEPT ![i].pc = "break"]
    /\ UNCHANGED <<config, now, circuit_breakers, last_errors, history,
                   eh_last>>

\* the rest of handle_error: the breaker test and activation, or the
\* recovery
thread_finish(i) ==
    /\ threads[i].pc = "break"
    /\ circuit_breakers' =
           IF should_circuit_break(error_counts, config, ThreadCategory)
           THEN activate_circuit_breaker(circuit_breakers, config,
                                         ThreadCategory, now)
           ELSE circuit_breakers
    /\ threads' = [threads EXCEPT ![i].pc = "done"]
    /\ UNCHANGED <<config, now, error_counts, last_errors, history, eh_last>>

(* -------------------------- retry decorators -------------------------- *)

\* largest max_retries a wrapper is built with
MaxRetries == 3

\* largest base_delay a wrapper is built with
MaxBaseDelay == 2

DefaultMaxRetries == 3

DefaultBaseDelay == 1

\* the classes of the errors the wrapped operation raises; both derive from
\* Exception
RaisedClasses == {"ConnectionError", "ValueError"}

\* what `except error_types` matches: error_types is a tuple of classes
IsInstance(class, error_types) ==
    \E i \in 1 .. Len(error_types) : IsSubclass(class, error_types[i])

\* the error_types a wrapper is built with: the default and a narrower one
ErrorTypeTuples == { <<"Exception">>, <<"ConnectionError">> }

\* what one call of the wrapped operation does: return, or raise an error
\* of the named class
CallOutcomes == {"return"} \cup RaisedClasses

RECURSIVE SeqsOfLen(_, _)
SeqsOfLen(S, n) ==
    IF n <= 0 THEN { <<>> }
    ELSE { Append(q, x) : q \in SeqsOfLen(S, n - 1), x \in S }

\* None where an exception is expected
NoException == [class |-> "None", id |-> 0]

\* how a call ended: kind is "none", "return" or "raise"
NoOutcome == [kind |-> "none", value |-> 0, error |-> NoException]

Returned(value) == [kind |-> "return", value |-> value, error |-> NoException]

Raised(error) == [kind |-> "raise", value |-> 0, error |-> error]

\* the k-th call of the wrapped operation: it returns its own value or
\* raises its own, new error object
func(outcomes, k) ==
    IF outcomes[k] = "return"
    THEN Returned(k)
    ELSE Raised([class |-> outcomes[k], id |-> k])

\* no wrapper has been built and called
NoArgs ==
    [max_retries |-> 0, base_delay |-> 0, error_types |-> <<>>,
     outcomes |-> <<>>]

\* a wrapper call: where it stands, the loop variable, the calls of the
\* wrapped operation made, the delays slept, last_exception, how it ended
NoWrapperCall ==
    [pc |-> "idle", attempt |-> 0, calls |-> 0, delays |-> <<>>,
     last_exception |-> NoException, outcome |-> NoOutcome]

VARIABLES
    retry_args,     \* the decorator arguments and the wrapped operation's outcomes
    sync_wrapper,   \* the call of retry_with_backoff's wrapper
    async_wrapper   \* the call of async_retry_with_backoff's wrapper

retry_vars == <<retry_args, sync_wrapper, async_wrapper>>

\* both decorators are applied with the same arguments to an operation
\* whose calls end as outcomes says, and both wrappers are called
call_wrappers(max_retries, base_delay, error_types, outcomes) ==
    /\ retry_args = NoArgs
    /\ sync_wrapper.pc = "idle"
    /\ async_wrapper.pc = "idle"
    /\ retry_args' = [max_retries |-> max_retries, base_delay |-> base_delay,
                      error_types |-> error_types, outcomes |-> outcomes]
    /\ sync_wrapper' = [NoWrapperCall EXCEPT !.pc = "running"]
    /\ async_wrapper' = [NoWrapperCall EXCEPT !.pc = "running"]

\* retry_with_backoff: delay slept with exponent 2 * attempt
retry_delay_squared(base_delay, attempt) == base_delay * (2 ^ (2 * attempt))

\* retry_with_backoff: delay = base_delay * (2 ** attempt)
retry_delay(base_delay, attempt) == base_delay * (2 ^ attempt)

\* retry_with_backoff returning a value after the loop
retry_exhausted_returning(last_exception) == Returned(0)

\* retry_with_backoff ending with a new error that wraps the last one
retry_exhausted_wrapping(last_exception) ==
    Raised([class |-> "RuntimeError", id |-> last_exception.id])

\* retry_with_backoff: raise last_exception (raising None is a TypeError)
retry_exhausted(last_exception) ==
    IF last_exception = NoException
    THEN Raised([class |-> "TypeError", id |-> 0])
    ELSE Raised(last_exception)

\* retry_with_backoff's wrapper: one pass of `for attempt in range(
\* max_retries + 1)`, the time.sleep included, or the statement after the
\* loop
retry_with_backoff ==
    /\ sync_wrapper.pc = "running"
    /\ LET attempt == sync_wrapper.attempt
           r == func(retry_args.outcomes, sync_wrapper.calls + 1)
       IN  sync_wrapper' =
             IF attempt >= retry_args.max_retries + 1
             THEN [sync_wrapper EXCEPT !.pc = "done",
                      !.outcome = retry_exhausted(sync_wrapper.last_exception)]
             ELSE IF r.kind = "return"
             THEN [sync_wrapper EXCEPT !.pc = "done", !.calls = @ + 1,
                      !.outcome = r]
             ELSE IF ~IsInstance(r.error.class, retry_args.error_types)
             THEN [sync_wrapper EXCEPT !.pc = "done", !.calls = @ + 1,
                      !.outcome = r]
             ELSE IF attempt < retry_args.max_retries
             THEN [sync_wrapper EXCEPT !.calls = @ + 1,
                      !.last_exception = r.error,
                      !.delays = Append(@, retry_delay(retry_args.base_delay,
                                                       attempt)),
                      !.attempt = @ + 1]
             ELSE [sync_wrapper EXCEPT !.calls = @ + 1,
                      !.last_exception = r.error,
                      !.attempt = @ + 1]
    /\ UNCHANGED <<retry_args, async_wrapper>>

\* async_retry_with_backoff: delay slept with exponent 2 * attempt
async_retry_delay_squared(base_delay, attempt) ==
    base_delay * (2 ^ (2 * attempt))

\* async_retry_with_backoff: delay = base_delay * (2 ** attempt)
async_retry_delay(base_delay, attempt) == base_delay * (2 ^ attempt)

\* async_retry_with_backoff: raise last_exception
async_retry_exhausted(last_exception) ==
    IF last_exception = NoException
    THEN Raised([class |-> "TypeError", id |-> 0])
    ELSE Raised(last_exception)

\* async_retry_with_backoff's wrapper: one pass of the loop up to its
\* await asyncio.sleep(delay), where the coroutine is suspended, or the
\* statement after the loop
async_retry_with_backoff ==
    /\ async_wrapper.pc = "running"
    /\ LET attempt == async_wrapper.attempt
           r == func(retry_args.outcomes, async_wrapper.calls + 1)
       IN  async_wrapper' =
             IF attempt >= retry_args.max_retries + 1
             THEN [async_wrapper EXCEPT !.pc = "done",
                      !.outcome =
                          async_retry_exhausted(async_wrapper.last_exception)]
             ELSE IF r.kind = "return"
             THEN [async_wrapper EXCEPT !.pc = "done", !.calls = @ + 1,
                      !.outcome = r]
             ELSE IF ~IsInstance(r.error.class, retry_args.error_types)
             THEN [async_wrapper EXCEPT !.pc = "done", !.calls = @ + 1,
                      !.outcome = r]
             ELSE IF attempt < retry_args.max_retries
             THEN [async_wrapper EXCEPT !.pc = "sleeping", !.calls = @ + 1,
                      !.last_exception = r.error,
                      !.delays =
                          Append(@, async_retry_delay(retry_args.base_delay,
                                                      attempt))]
             ELSE [async_wrapper EXCEPT !.calls = @ + 1,
                      !.last_exception = r.error,
                      !.attempt = @ + 1]
    /\ UNCHANGED <<retry_args, sync_wrapper>>

\* the asyncio.sleep of async_retry_with_backoff's wrapper ends: the
\* warning is logged and the loop goes on
async_retry_wake ==
    /\ async_wrapper.pc = "sleeping"
    /\ async_wrapper' = [async_wrapper EXCEPT !.pc = "running",
                            !.attempt = @ + 1]
    /\ UNCHANGED <<retry_args, sync_wrapper>>

(* ----------------------- RecoveryManager: state ----------------------- *)

\* severity increments a caller hands to initiate_graceful_degradation:
\* -MaxDecrement .. MaxSeverity
MaxSeverity == 3

MaxDecrement == 1

\* degradation_level is followed down to -MaxBelow
MaxBelow == 2

\* attempt_recovery calls suspended in a strategy's sleep at one time
MaxInFlight == 2

\* last tick (half a second) of the snapshot clock
MaxClock == 3

MaxLevel == 5

DegradedLevel == 3

\* the keys of recovery_strategies
StrategyTypes ==
    {"api_failure", "data_feed_failure", "model_failure", "trading_halt",
     "system_overload", "network_partition"}

\* the strategies that await asyncio.sleep: an attempt_recovery call is
\* suspended there and other coroutines run meanwhile
SleepingTypes == {"api_failure", "trading_halt", "network_partition"}

\* failure types a caller passes: the strategy keys and one that is no key
FailureTypes == StrategyTypes \cup {"unknown_failure"}

\* the account managers passed to create_system_snapshot: what they hold,
\* and whether awaiting their methods raises (the methods of AccountManager
\* are no coroutines, and it has no get_orders)
AccountViews ==
    { [positions |-> EmptyDict, account_balance |-> 0, active_orders |-> <<>>,
       raises |-> FALSE],
      [positions |-> [AAPL |-> 10], account_balance |-> 15000,
       active_orders |-> <<"order1">>, raises |-> FALSE],
      [positions |-> [AAPL |-> 10], account_balance |-> 15000,
       active_orders |-> <<"order1">>, raises |-> TRUE] }

\* the values of a data analyzer's last_training_time and last_accuracy
\* attributes and of what json makes of them: None, a datetime, a float, a
\* string
PyNone == [type |-> "NoneType", value |-> 0]

PyDatetime(t) == [type |-> "datetime", value |-> t]

PyFloat(x) == [type |-> "float", value |-> x]

\* str(v) of a datetime v
PyStr(v) == [type |-> "str", value |-> v.value]

\* the data analyzers: the repository's DataAnalyzer (it has a model and
\* neither last_training_time nor last_accuracy) and one that records when
\* it was trained and how well
Analyzers ==
    { [model |-> TRUE, last_training_time |-> PyNone,
       last_accuracy |-> PyNone],
      [model |-> TRUE, last_training_time |-> PyDatetime(0),
       last_accuracy |-> PyFloat(1)] }

\* the exceptions that reading a snapshot file back can raise, in open(), in
\* json.load() and in the lookup and parsing of its fields
LoadFaults == {"OSError", "JSONDecodeError", "KeyError"}

NoSnapshot == [timestamp |-> -1]

VARIABLES
    recovery_state,     \* self.recovery_state
    degradation_level,  \* self.degradation_level
    last_snapshot,      \* self.last_snapshot (NoSnapshot: None)
    files,              \* snapshots/: file name -> [data, ctime]
    clock,              \* wall clock of the snapshot store, in half seconds
    inflight,           \* attempt_recovery calls suspended in their strategy
    shutdown_invoked,   \* emergency_shutdown has been called (history)
    rm_last             \* what the last RecoveryManager call did and returned

rm_vars == <<recovery_state, degradation_level, last_snapshot, files, clock,
             inflight, shutdown_invoked, rm_last>>

VARIABLES
    concurrent  \* the calls made from the suspension of an attempt_recovery
                \* call to the return of the last suspended one, and the
                \* level and state they started from (history)

VARIABLES
    unadjusted  \* the handler the same calls give at the same moments when
                \* nobody sets the clock: its time, error_counts and
                \* circuit_breakers, and the result of its last
                \* is_circuit_breaker_active (history)

VARIABLES
    operation   \* the operation called last (history)

VARIABLES
    cm_files,   \* what the file system holds at each configuration path
    cm_last     \* the last ConfigManager(config_path) call: the path, what
                \* the file held, the exception that left the call ("None"
                \* when it returned)

cm_vars == <<cm_files, cm_last>>

vars == <<config, now, error_counts, circuit_breakers, last_errors, history,
          eh_last, threads, retry_args, sync_wrapper, async_wrapper, recovery_state,
          degradation_level, last_snapshot, files, clock, inflight,
          shutdown_invoked, rm_last, concurrent, unadjusted, operation,
          cm_files, cm_last>>

NoRMCall ==
    [op |-> "none", failure_type |-> "none", ret |-> FALSE, success |-> FALSE,
     level_before |-> 0, state_before |-> "normal", wrote |-> FALSE,
     fault |-> "none", raised |-> FALSE, snapshot |-> NoSnapshot,
     severity |-> 0]

Min(a, b) == IF a < b THEN a ELSE b

Max(a, b) == IF a > b THEN a ELSE b

InFlight == {t \in SleepingTypes : inflight[t] > 0}

InFlightCount ==
    inflight["api_failure"] + inflight["trading_halt"]
        + inflight["network_partition"]

(* --------------------- RecoveryManager: operations -------------------- *)

\* strftime('%Y%m%d_%H%M%S'): the timestamp cut to whole seconds
snapshot_filename(snapshot) == snapshot.timestamp \div 2

\* timestamp.isoformat()
isoformat(timestamp) == <<"iso", timestamp>>

\* datetime.fromisoformat(text)
fromisoformat(text) == text[2]

\* json.dump's default=str: a value json cannot encode is written as its
\* str(); None and floats are encoded as they are
json_default(v) == IF v.type = "datetime" THEN PyStr(v) ELSE v

\* model_state as json.dump writes it and json.load reads it back
json_model_state(model_state) ==
    [model_trained |-> model_state.model_trained,
     last_training_time |-> json_default(model_state.last_training_time),
     model_accuracy |-> json_default(model_state.model_accuracy)]

\* _get_model_state(data_analyzer)
get_model_state(data_analyzer) ==
    [model_trained |-> data_analyzer.model,
     last_training_time |-> data_analyzer.last_training_time,
     model_accuracy |-> data_analyzer.last_accuracy]

\* _persist_snapshot: the new snapshots/ directory.  write_ok: open()
\* succeeds and json.dump completes; a failure (snapshots/ does not exist, no
\* permission) is logged and swallowed.  positions, account_balance,
\* active_orders and configuration hold what json encodes as it is.
persist_snapshot(dir, snapshot, t, write_ok) ==
    IF write_ok
    THEN LET filename == snapshot_filename(snapshot)
             snapshot_data ==
                 [timestamp |-> isoformat(snapshot.timestamp),
                  positions |-> snapshot.positions,
                  account_balance |-> snapshot.account_balance,
                  active_orders |-> snapshot.active_orders,
                  model_state |-> json_model_state(snapshot.model_state),
                  configuration |-> snapshot.configuration]
         IN  [f \in DOMAIN dir \cup {filename} |->
                 IF f = filename THEN [data |-> snapshot_data, ctime |-> t]
                 ELSE dir[f]]
    ELSE dir

\* _get_current_positions: {} when the account manager raises
get_current_positions(account_manager) ==
    IF account_manager.raises THEN EmptyDict ELSE account_manager.positions

\* _get_account_balance: 0.0 when the account manager raises
get_account_balance(account_manager) ==
    IF account_manager.raises THEN 0 ELSE account_manager.account_balance

\* _get_active_orders: [] when the account manager raises
get_active_orders(account_manager) ==
    IF account_manager.raises THEN <<>> ELSE account_manager.active_orders

\* create_system_snapshot(account_manager, data_analyzer, trade_executor);
\* the call takes time, so the next one reads a later datetime.now()
create_system_snapshot(view, data_analyzer, write_ok) ==
    LET snapshot ==
            [timestamp |-> clock,
             positions |-> get_current_positions(view),
             account_balance |-> get_account_balance(view),
             active_orders |-> get_active_orders(view),
             model_state |-> get_model_state(data_analyzer),
             configuration |-> config]
    IN  /\ files' = persist_snapshot(files, snapshot, clock, write_ok)
        /\ last_snapshot' = snapshot
        /\ clock' = clock + 1
        /\ rm_last' = [NoRMCall EXCEPT !.op = "create_system_snapshot",
                          !.ret = TRUE, !.wrote = write_ok,
                          !.fault = IF view.raises THEN "accessor"
                                    ELSE "none",
                          !.level_before = degradation_level,
                          !.state_before = recovery_state,
                          !.snapshot = snapshot]
        /\ UNCHANGED <<recovery_state, degradation_level, inflight,
                       shutdown_invoked>>

\* the files max(snapshot_files, key=os.path.getctime) can return: those of
\* the greatest ctime (among equal ones, the first in glob's order)
latest_files(dir) ==
    {f \in DOMAIN dir : \A g \in DOMAIN dir : dir[g].ctime <= dir[f].ctime}

\* the except clause of load_latest_snapshot catching OSError only
load_except_os_error(class) == class = "OSError"

\* the except clause of load_latest_snapshot: except Exception
load_except(class) == IsSubclass(class, "Exception")

\* the SystemSnapshot load_latest_snapshot builds from a file's data
loaded_snapshot(data) ==
    [timestamp |-> fromisoformat(data.timestamp),
     positions |-> data.positions,
     account_balance |-> data.account_balance,
     active_orders |-> data.active_orders,
     model_state |-> data.model_state,
     configuration |-> data.configuration]

\* load_latest_snapshot(): latest_file is the file max() selects, fault the
\* exception raised while it is read ("none": it is read and parsed)
load_latest_snapshot(latest_file, fault) ==
    /\ IF DOMAIN files = {}
       THEN rm_last' = [NoRMCall EXCEPT !.op = "load_latest_snapshot"]
       ELSE /\ latest_file \in latest_files(files)
            /\ rm_last' =
                 IF fault = "none"
                 THEN [NoRMCall EXCEPT !.op = "load_latest_snapshot",
                          !.ret = TRUE,
                          !.snapshot = loaded_snapshot(files[latest_file].data)]
                 ELSE IF load_except(fault)
                 THEN [NoRMCall EXCEPT !.op = "load_latest_snapshot",
                          !.fault = fault]
                 ELSE [NoRMCall EXCEPT !.op = "load_latest_snapshot",
                          !.fault = fault, !.raised = TRUE]
    /\ UNCHANGED <<recovery_state, degradation_level, last_snapshot, files,
                   clock, inflight, shutdown_invoked>>

\* the level initiate_graceful_degradation stores
degraded_level(level, severity) == Min(level + severity, MaxLevel)

\* the state left when only the full halt at level 5 changes it
degraded_state_halt_only(state, level) ==
    IF level >= MaxLevel THEN "emergency" ELSE state

\* the state initiate_graceful_degradation and _apply_degradation_measures
\* leave
degraded_state(state, level) ==
    IF level >= MaxLevel THEN "emergency"
    ELSE IF level >= DegradedLevel THEN "degraded"
    ELSE state

\* initiate_graceful_degradation(failure_type, severity)
initiate_graceful_degradation(failure_type, severity) ==
    LET level == degraded_level(degradation_level, severity)
    IN  /\ degradation_level' = level
        /\ recovery_state' = degraded_state(recovery_state, level)
        /\ rm_last' = [NoRMCall EXCEPT
                          !.op = "initiate_graceful_degradation",
                          !.severity = severity,
                          !.level_before = degradation_level,
                          !.state_before = recovery_state]
        /\ UNCHANGED <<last_snapshot, files, clock, inflight,
                       shutdown_invoked>>

\* the recovery strategies: what each returns once it has run
recover_from_api_failure == TRUE

recover_from_data_failure == TRUE

recover_from_model_failure == TRUE

recover_from_trading_halt == TRUE

recover_from_system_overload == TRUE

recover_from_network_partition == TRUE

recovery_strategy(failure_type) ==
    CASE failure_type = "api_failure" -> recover_from_api_failure
      [] failure_type = "data_feed_failure" -> recover_from_data_failure
      [] failure_type = "model_failure" -> recover_from_model_failure
      [] failure_type = "trading_halt" -> recover_from_trading_halt
      [] failure_type = "system_overload" -> recover_from_system_overload
      [] failure_type = "network_partition" -> recover_from_network_partition

\* the level attempt_recovery stores after a successful strategy
recovered_level(level) == Max(0, level - 1)

\* attempt_recovery from the strategy's return to its own return; state is
\* recovery_state as it is when the strategy returns
attempt_recovery_finish(failure_type, state) ==
    LET success == recovery_strategy(failure_type)
        level == recovered_level(degradation_level)
    IN  IF success
        THEN /\ degradation_level' = level
             /\ recovery_state' = IF level = 0 THEN "normal" ELSE state
             /\ rm_last' = [NoRMCall EXCEPT !.op = "attempt_recovery",
                               !.failure_type = failure_type, !.ret = TRUE,
                               !.success = TRUE,
                               !.level_before = degradation_level,
                               !.state_before = recovery_state]
        ELSE /\ degradation_level' = degradation_level
             /\ recovery_state' = state
             /\ rm_last' = [NoRMCall EXCEPT !.op = "attempt_recovery",
                               !.failure_type = failure_type,
                               !.level_before = degradation_level,
                               !.state_before = recovery_state]

\* attempt_recovery(failure_type), from the call to its return or, for a
\* strategy that sleeps, to its suspension
attempt_recovery(failure_type) ==
    /\ IF failure_type \notin StrategyTypes
       THEN /\ recovery_state' = "recovery"
            /\ rm_last' = [NoRMCall EXCEPT !.op = "attempt_recovery",
                              !.failure_type = failure_type,
                              !.level_before = degradation_level,
                              !.state_before = recovery_state]
            /\ UNCHANGED <<degradation_level, inflight>>
       ELSE IF failure_type \in SleepingTypes
       THEN /\ recovery_state' = "recovery"
            /\ inflight' = [inflight EXCEPT ![failure_type] = @ + 1]
            /\ rm_last' = [NoRMCall EXCEPT !.op = "attempt_recovery_suspended",
                              !.failure_type = failure_type,
                              !.level_before = degradation_level,
                              !.state_before = recovery_state]
            /\ UNCHANGED degradation_level
       ELSE /\ attempt_recovery_finish(failure_type, "recovery")
            /\ UNCHANGED inflight
    /\ UNCHANGED <<last_snapshot, files, clock, shutdown_invoked>>

\* a suspended attempt_recovery call: its sleep ends and it runs to its return
attempt_recovery_resume(failure_type) ==
    /\ inflight[failure_type] > 0
    /\ inflight' = [inflight EXCEPT ![failure_type] = @ - 1]
    /\ attempt_recovery_finish(failure_type, recovery_state)
    /\ UNCHANGED <<last_snapshot, files, clock, shutdown_invoked>>

\* emergency_shutdown(reason)
emergency_shutdown(write_ok) ==
    /\ recovery_state' = "emergency"
    /\ shutdown_invoked' = TRUE
    /\ IF last_snapshot # NoSnapshot
       THEN /\ files' = persist_snapshot(files, last_snapshot, clock, write_ok)
            /\ rm_last' = [NoRMCall EXCEPT !.op = "emergency_shutdown",
                              !.wrote = write_ok,
                              !.level_before = degradation_level,
                              !.state_before = recovery_state]
       ELSE /\ UNCHANGED files
            /\ rm_last' = [NoRMCall EXCEPT !.op = "emergency_shutdown",
                              !.level_before = degradation_level,
                              !.state_before = recovery_state]
    /\ UNCHANGED <<degradation_level, last_snapshot, clock, inflight>>

\* get_recovery_status settling the state on the level it reports
get_recovery_status_settling ==
    /\ recovery_state' = degraded_state("normal", degradation_level)
    /\ rm_last' = [NoRMCall EXCEPT !.op = "get_recovery_status",
                      !.ret = TRUE,
                      !.level_before = degradation_level,
                      !.state_before = recovery_state,
                      !.snapshot = last_snapshot]
    /\ UNCHANGED <<degradation_level, last_snapshot, files, clock, inflight,
                   shutdown_invoked>>

\* get_recovery_status(): the dict it returns holds the state, the level
\* and the last snapshot
get_recovery_status ==
    /\ rm_last' = [NoRMCall EXCEPT !.op = "get_recovery_status",
                      !.ret = TRUE,
                      !.level_before = degradation_level,
                      !.state_before = recovery_state,
                      !.snapshot = last_snapshot]
    /\ UNCHANGED <<recovery_state, degradation_level, last_snapshot, files,
                   clock, inflight, shutdown_invoked>>

\* the snapshot clock advances
ClockTick ==
    /\ clock < MaxClock
    /\ clock' = clock + 1
    /\ UNCHANGED <<recovery_state, degradation_level, last_snapshot, files,
                   inflight, shutdown_invoked, rm_last>>

(* ------------- calls overlapping a suspended attempt_recovery --------- *)

\* calls made while attempt_recovery calls are suspended, in one stretch
MaxEpisodeCalls == 3

\* no attempt_recovery call is or was suspended
NoEpisode ==
    [open |-> FALSE, closed |-> FALSE, level |-> 0, state |-> "normal",
     calls |-> <<>>]

\* a call of initiate_graceful_degradation or attempt_recovery
InitiateCall(failure_type, severity) ==
    [op |-> "initiate", failure_type |-> failure_type, severity |-> severity]

AttemptCall(failure_type) ==
    [op |-> "attempt", failure_type |-> failure_type, severity |-> 0]

\* <<level, state>> after call c has run alone, from its first statement
\* to its return, on <<level, state>>
run_alone(ls, c) ==
    IF c.op = "initiate"
    THEN LET level == degraded_level(ls[1], c.severity)
         IN  <<level, degraded_state(ls[2], level)>>
    ELSE IF c.failure_type \in StrategyTypes
            /\ recovery_strategy(c.failure_type)
    THEN LET level == recovered_level(ls[1])
         IN  <<level, IF level = 0 THEN "normal" ELSE "recovery">>
    ELSE <<ls[1], "recovery">>

RECURSIVE run_in_order(_, _, _)
\* <<level, state>> after calls[order[1]], calls[order[2]], ... have run one
\* after the other
run_in_order(ls, calls, order) ==
    IF order = <<>> THEN ls
    ELSE run_in_order(run_alone(ls, calls[Head(order)]), calls, Tail(order))

\* the orders in which n calls can run one after the other
Orders(n) ==
    {f \in [1 .. n -> 1 .. n] : \A i, j \in 1 .. n : f[i] = f[j] => i = j}

\* the <<level, state>> pairs the calls of a stretch give in some
\* sequential order
SequentialResults(e) ==
    {run_in_order(<<e.level, e.state>>, e.calls, o) :
        o \in Orders(Len(e.calls))}

\* call c is made
record_call(c) ==
    concurrent' =
        IF concurrent.open
        THEN [concurrent EXCEPT !.calls = Append(@, c)]
        ELSE IF c.op = "attempt" /\ c.failure_type \in SleepingTypes
        THEN [open |-> TRUE, closed |-> FALSE, level |-> degradation_level,
              state |-> recovery_state, calls |-> <<c>>]
        ELSE NoEpisode

\* a suspended attempt_recovery call returns
record_return ==
    concurrent' =
        IF InFlightCount' = 0
        THEN [concurrent EXCEPT !.open = FALSE, !.closed = TRUE]
        ELSE concurrent

(* ------------------- the wall clock and the time elapsed -------------- *)

\* the system clock is set: datetime.now() jumps by d ticks while no time
\* passes
ClockAdjust(d) ==
    /\ now' = now + d
    /\ eh_last' = NoCall
    /\ UNCHANGED <<config, error_counts, circuit_breakers, last_errors,
                   history>>

\* the handler after construction, on a clock nobody sets
Unadjusted ==
    [now |-> 0, error_counts |-> EmptyDict, circuit_breakers |-> EmptyDict,
     ret |-> FALSE]

\* handle_error on the clock nobody sets: window and breaker
unadjusted_handle_error(error_type) ==
    LET counts == update_error_tracking(unadjusted.error_counts, error_type,
                                        unadjusted.now, unadjusted.now)
    IN  unadjusted' =
            [unadjusted EXCEPT
                !.error_counts = counts,
                !.circuit_breakers =
                    IF should_circuit_break(counts, config, error_type)
                    THEN activate_circuit_breaker(@, config, error_type,
                                                  unadjusted.now)
                    ELSE @]

\* is_circuit_breaker_active on the clock nobody sets
unadjusted_is_circuit_breaker_active(error_type) ==
    LET breakers == unadjusted.circuit_breakers
        open == BreakerOpen(breakers, error_type, unadjusted.now)
    IN  unadjusted' =
            [unadjusted EXCEPT
                !.circuit_breakers =
                    IF error_type \in DOMAIN breakers /\ ~open
                    THEN [k \in DOMAIN breakers \ {error_type} |->
                             breakers[k]]
                    ELSE breakers,
                !.ret = open]

\* time passes on the clock nobody sets
unadjusted_tick == unadjusted' = [unadjusted EXCEPT !.now = @ + 1]

ghost_vars == <<concurrent, unadjusted, operation>>

(* ------------------------------ ConfigManager ------------------------- *)

\* the paths a ConfigManager is built on: main.py's default and another
ConfigPaths == {"config/default_config.json", "fake_path"}

\* what a path can hold: nothing, a file that cannot be opened, a file that
\* is not JSON, a JSON object without and with the key 'strategies'
FileStates ==
    {"missing", "unreadable", "not_json", "no_strategies", "with_strategies"}

NoConfigCall == [op |-> "none", path |-> "none", file |-> "none",
                 raised |-> "None"]

\* the global names of module config_manager: its two classes (the module
\* has no import statement)
ModuleNames == {"ConfigManager", "ConfigurationError"}

\* the builtins the module uses
BuiltinNames == {"open", "FileNotFoundError", "IOError"}

\* evaluating a global name: the exception raised, "None" when it is bound
name_lookup(name) ==
    IF name \in ModuleNames \cup BuiltinNames THEN "None" ELSE "NameError"

\* open(self.config_path, 'r'): the exception raised, "None" when it opens
open_read(file) ==
    CASE file = "missing" -> "FileNotFoundError"
      [] file = "unreadable" -> "PermissionError"
      [] OTHER -> "None"

\* json.load(config_file): the exception raised, "None" when it returns
json_load(file) ==
    IF name_lookup("json") # "None" THEN name_lookup("json")
    ELSE IF file = "not_json" THEN "JSONDecodeError"
    ELSE "None"

\* load_config(): the exception that leaves it, "None" when it returns.
\* The except clauses are tried in order, each after evaluating its class
\* expression.
load_config(file) ==
    LET raised == IF open_read(file) # "None" THEN open_read(file)
                  ELSE json_load(file)
    IN  IF raised = "None" THEN "None"
        ELSE IF IsSubclass(raised, "FileNotFoundError")
        THEN "ConfigurationError"
        ELSE IF name_lookup("json") # "None" THEN name_lookup("json")
        ELSE IF IsSubclass(raised, "JSONDecodeError")
        THEN "ConfigurationError"
        ELSE raised

\* ConfigManager(config_path)
ConfigManager(config_path) ==
    /\ cm_last' = [op |-> "__init__", path |-> config_path,
                   file |-> cm_files[config_path],
                   raised |-> load_config(cm_files[config_path])]
    /\ UNCHANGED cm_files

\* somebody writes, replaces or removes the file at a path
write_file(path, file) ==
    /\ cm_files[path] # file
    /\ cm_files' = [cm_files EXCEPT ![path] = file]
    /\ UNCHANGED cm_last

(* --------------------------- specifications --------------------------- *)

Init ==
    /\ config \in Configs
    /\ now = 0
    /\ error_counts = EmptyDict
    /\ circuit_breakers = EmptyDict
    /\ last_errors = EmptyDict
    /\ history = [t \in ErrorTypes |-> <<>>]
    /\ eh_last = NoCall
    /\ threads = [i \in 1 .. NumThreads |-> ReadyThread]
    /\ retry_args = NoArgs
    /\ sync_wrapper = NoWrapperCall
    /\ async_wrapper = NoWrapperCall
    /\ recovery_state = "normal"
    /\ last_snapshot = NoSnapshot
    /\ degradation_level = 0
    /\ files = EmptyDict
    /\ clock = 0
    /\ inflight = [t \in SleepingTypes |-> 0]
    /\ shutdown_invoked = FALSE
    /\ rm_last = NoRMCall
    /\ concurrent = NoEpisode
    /\ unadjusted = Unadjusted
    /\ operation = "none"
    /\ cm_files = [p \in ConfigPaths |-> "missing"]
    /\ cm_last = NoConfigCall

\* only error_type has reported errors so far
OneCategory(error_type) == DOMAIN error_counts \subseteq {error_type}

NextEH ==
    \/ \E t \in ErrorTypes, s \in ErrorSeverities :
           /\ Calls < MaxCalls
           /\ OneCategory(t)
           /\ handle_error(t, s, NoFault)
           /\ UNCHANGED <<cm_vars, th_vars, retry_vars, rm_vars,
                       ghost_vars>>
    \/ \E t \in ErrorTypes :
           /\ OneCategory(t)
           /\ is_circuit_breaker_active(t)
           /\ UNCHANGED <<cm_vars, th_vars, retry_vars, rm_vars,
                       ghost_vars>>
    \/ Tick /\ UNCHANGED <<cm_vars, th_vars, retry_vars, rm_vars,
                       ghost_vars>>

\* the ErrorHandler
SpecEH == Init /\ [][NextEH]_vars

\* the categories of the two-category runs
PairCategories == {"network_error", "model_error"}

NextEHPair ==
    \/ \E t \in PairCategories, s \in ErrorSeverities :
           /\ Calls < MaxPairCalls
           /\ handle_error(t, s, NoFault)
           /\ UNCHANGED <<cm_vars, th_vars, retry_vars, rm_vars, ghost_vars>>
    \/ \E t \in PairCategories :
           /\ is_circuit_breaker_active(t)
           /\ UNCHANGED <<cm_vars, th_vars, retry_vars, rm_vars, ghost_vars>>
    \/ \E t \in ErrorTypes :
           /\ should_circuit_break_call(t)
           /\ UNCHANGED <<cm_vars, th_vars, retry_vars, rm_vars, ghost_vars>>
    \/ Tick /\ UNCHANGED <<cm_vars, th_vars, retry_vars, rm_vars, ghost_vars>>

\* one ErrorHandler receiving errors of two categories
SpecEHPair == Init /\ [][NextEHPair]_vars

\* the category of the runs with clock adjustments
ClockCategory == "network_error"

NextClock ==
    \/ \E t \in {ClockCategory}, s \in ErrorSeverities :
           /\ Calls < MaxClockCalls
           /\ handle_error(t, s, NoFault)
           /\ unadjusted_handle_error(t)
           /\ UNCHANGED <<cm_vars, th_vars, retry_vars, rm_vars, concurrent, operation>>
    \/ \E t \in {ClockCategory} :
           /\ is_circuit_breaker_active(t)
           /\ unadjusted_is_circuit_breaker_active(t)
           /\ UNCHANGED <<cm_vars, th_vars, retry_vars, rm_vars, concurrent, operation>>
    \/ /\ Tick
       /\ unadjusted_tick
       /\ UNCHANGED <<cm_vars, th_vars, retry_vars, rm_vars, concurrent, operation>>
    \/ \E d \in (-MaxSkew .. MaxSkew) \ {0} :
           /\ now + d - unadjusted.now \in -MaxSkew .. MaxSkew
           /\ ClockAdjust(d)
           /\ UNCHANGED <<cm_vars, th_vars, retry_vars, rm_vars, ghost_vars>>

\* one ErrorHandler on a machine whose clock is set now and then
SpecClock == Init /\ [][NextClock]_vars

\* the category of the runs in which the breaker is polled
PollCategory == "api_error"

\* the cool-down of the configuration, in ticks
CoolDown(cfg) ==
    Ticks(Get(cfg, "circuit_breaker_duration", DefaultBreakerMinutes))

\* errors are reported while the clock leaves room for the cool-down
ReportError ==
    \E s \in ErrorSeverities :
        /\ Calls < MaxCalls
        /\ now + CoolDown(config) < MaxTime
        /\ handle_error(PollCategory, s, NoFault)
        /\ UNCHANGED <<cm_vars, th_vars, retry_vars, rm_vars, ghost_vars>>

PollBreaker ==
    /\ is_circuit_breaker_active(PollCategory)
    /\ UNCHANGED <<cm_vars, th_vars, retry_vars, rm_vars, ghost_vars>>

TimePasses ==
    Tick /\ UNCHANGED <<cm_vars, th_vars, retry_vars, rm_vars, ghost_vars>>

NextEHPolling == ReportError \/ PollBreaker \/ TimePasses

\* one ErrorHandler whose caller keeps asking is_circuit_breaker_active
\* while time passes
SpecEHPolling ==
    /\ Init
    /\ [][NextEHPolling]_vars
    /\ WF_vars(TimePasses)
    /\ WF_vars(PollBreaker)

NextNetwork ==
    \/ \E i \in NetworkErrorInfos :
           /\ recover_from_network_error_call(i)
           /\ UNCHANGED <<cm_vars, th_vars, retry_vars, rm_vars, ghost_vars>>
    \/ Tick /\ UNCHANGED <<cm_vars, th_vars, retry_vars, rm_vars, ghost_vars>>

\* the network recovery strategy called with error records of any
\* retry_count
SpecNetwork == Init /\ [][NextNetwork]_vars

CheckHealth ==
    /\ get_system_health
    /\ UNCHANGED <<cm_vars, th_vars, retry_vars, rm_vars, ghost_vars>>

NextEHHealth == ReportError \/ PollBreaker \/ CheckHealth \/ TimePasses

\* one ErrorHandler whose health is read now and then
SpecEHHealth == Init /\ [][NextEHHealth]_vars

NextEHFaults ==
    \/ \E t \in ErrorTypes, s \in ErrorSeverities,
          f \in HandlerFaults \cup {NoFault} :
           /\ Calls < MaxFaultCalls
           /\ OneCategory(t)
           /\ handle_error(t, s, f)
           /\ UNCHANGED <<cm_vars, th_vars, retry_vars, rm_vars,
                       ghost_vars>>
    \/ Tick /\ UNCHANGED <<cm_vars, th_vars, retry_vars, rm_vars,
                       ghost_vars>>

\* handle_error with the failures of its own steps
SpecEHFaults == Init /\ [][NextEHFaults]_vars

NextThreads ==
    \/ \E i \in 1 .. NumThreads :
           thread_check(i) /\ UNCHANGED <<cm_vars, retry_vars, rm_vars,
                       ghost_vars>>
    \/ \E i \in 1 .. NumThreads :
           thread_init(i) /\ UNCHANGED <<cm_vars, retry_vars, rm_vars,
                       ghost_vars>>
    \/ \E i \in 1 .. NumThreads :
           thread_append(i) /\ UNCHANGED <<cm_vars, retry_vars, rm_vars,
                       ghost_vars>>
    \/ \E i \in 1 .. NumThreads :
           thread_prune(i) /\ UNCHANGED <<cm_vars, retry_vars, rm_vars,
                       ghost_vars>>
    \/ \E i \in 1 .. NumThreads :
           thread_assign(i) /\ UNCHANGED <<cm_vars, retry_vars, rm_vars,
                       ghost_vars>>
    \/ \E i \in 1 .. NumThreads :
           thread_finish(i) /\ UNCHANGED <<cm_vars, retry_vars, rm_vars,
                       ghost_vars>>

\* handle_error calls for one category running in parallel threads on a
\* new ErrorHandler, all at the same time of day
SpecThreads == Init /\ [][NextThreads]_vars

\* the calls that change degradation_level and recovery_state, with the
\* severity increments drawn from increments
RMStep(increments) ==
    \/ \E t \in FailureTypes, s \in increments :
           /\ degradation_level + s >= 0 - MaxBelow
           /\ initiate_graceful_degradation(t, s)
           /\ UNCHANGED <<cm_vars, eh_vars, th_vars, retry_vars,
                       ghost_vars>>
    \/ \E t \in FailureTypes :
           /\ t \in SleepingTypes => InFlightCount < MaxInFlight
           /\ attempt_recovery(t)
           /\ UNCHANGED <<cm_vars, eh_vars, th_vars, retry_vars,
                       ghost_vars>>
    \/ \E t \in SleepingTypes :
           attempt_recovery_resume(t) /\ UNCHANGED <<cm_vars, eh_vars, th_vars, retry_vars,
                       ghost_vars>>
    \/ \E ok \in BOOLEAN :
           emergency_shutdown(ok) /\ UNCHANGED <<cm_vars, eh_vars, th_vars, retry_vars,
                       ghost_vars>>

NextRM == RMStep((0 - MaxDecrement) .. MaxSeverity)

\* the RecoveryManager's degradation level and recovery state, the severity
\* increment being any integer
SpecRM == Init /\ [][NextRM]_vars

NextRMPositive == RMStep(1 .. MaxSeverity)

\* the same with positive severity increments only
SpecRMPositive == Init /\ [][NextRMPositive]_vars

NextSnap ==
    \/ \E v \in AccountViews, a \in Analyzers, ok \in BOOLEAN :
           /\ clock < MaxClock
           /\ create_system_snapshot(v, a, ok)
           /\ UNCHANGED <<cm_vars, eh_vars, th_vars, retry_vars,
                       ghost_vars>>
    \/ \E f \in DOMAIN files \cup {0}, fault \in LoadFaults \cup {"none"} :
           /\ load_latest_snapshot(f, fault)
           /\ UNCHANGED <<cm_vars, eh_vars, th_vars, retry_vars,
                       ghost_vars>>
    \/ \E ok \in BOOLEAN :
           emergency_shutdown(ok) /\ UNCHANGED <<cm_vars, eh_vars, th_vars, retry_vars,
                       ghost_vars>>
    \/ ClockTick /\ UNCHANGED <<cm_vars, eh_vars, th_vars, retry_vars,
                       ghost_vars>>

\* the category the ErrorHandler is called with in the runs of both
\* components
OwnerCategory == "api_error"

\* what the bot's account manager and data analyzer hold there
OwnerView ==
    [positions |-> [AAPL |-> 10], account_balance |-> 15000,
     active_orders |-> <<"order1">>, raises |-> FALSE]

OwnerAnalyzer ==
    [model |-> TRUE, last_training_time |-> PyNone, last_accuracy |-> PyNone]

\* the failure types the RecoveryManager is called with there: one whose
\* strategy sleeps, one whose strategy does not, one without a strategy
OwnerFailureTypes == {"api_failure", "model_failure", "unknown_failure"}

NextOwner ==
    \/ \E t \in OwnerFailureTypes, s \in 1 .. MaxSeverity :
           /\ initiate_graceful_degradation(t, s)
           /\ operation' = "initiate_graceful_degradation"
           /\ UNCHANGED <<cm_vars, eh_vars, th_vars, retry_vars, concurrent,
                          unadjusted>>
    \/ \E t \in OwnerFailureTypes :
           /\ t \in SleepingTypes => InFlightCount < MaxInFlight
           /\ attempt_recovery(t)
           /\ operation' = "attempt_recovery"
           /\ UNCHANGED <<cm_vars, eh_vars, th_vars, retry_vars, concurrent,
                          unadjusted>>
    \/ \E t \in SleepingTypes \cap OwnerFailureTypes :
           /\ attempt_recovery_resume(t)
           /\ operation' = "attempt_recovery"
           /\ UNCHANGED <<cm_vars, eh_vars, th_vars, retry_vars, concurrent,
                          unadjusted>>
    \/ \E ok \in BOOLEAN :
           /\ emergency_shutdown(ok)
           /\ operation' = "emergency_shutdown"
           /\ UNCHANGED <<cm_vars, eh_vars, th_vars, retry_vars, concurrent,
                          unadjusted>>
    \/ \E ok \in BOOLEAN :
           /\ clock < MaxOwnerSnapshots
           /\ create_system_snapshot(OwnerView, OwnerAnalyzer, ok)
           /\ operation' = "create_system_snapshot"
           /\ UNCHANGED <<cm_vars, eh_vars, th_vars, retry_vars, concurrent,
                          unadjusted>>
    \/ \E f \in DOMAIN files \cup {0}, fault \in LoadFaults \cup {"none"} :
           /\ load_latest_snapshot(f, fault)
           /\ operation' = "load_latest_snapshot"
           /\ UNCHANGED <<cm_vars, eh_vars, th_vars, retry_vars, concurrent,
                          unadjusted>>
    \/ /\ get_recovery_status
       /\ operation' = "get_recovery_status"
       /\ UNCHANGED <<cm_vars, eh_vars, th_vars, retry_vars, concurrent, unadjusted>>
    \/ \E s \in ErrorSeverities :
           /\ Calls < MaxOwnerCalls
           /\ handle_error(OwnerCategory, s, NoFault)
           /\ operation' = "handle_error"
           /\ UNCHANGED <<cm_vars, th_vars, retry_vars, rm_vars, concurrent,
                          unadjusted>>
    \/ /\ is_circuit_breaker_active(OwnerCategory)
       /\ operation' = "is_circuit_breaker_active"
       /\ UNCHANGED <<cm_vars, th_vars, retry_vars, rm_vars, concurrent, unadjusted>>

\* a RecoveryManager and an ErrorHandler of one bot, called in any order
SpecOwner == Init /\ [][NextOwner]_vars

NextConfig ==
    \/ \E p \in ConfigPaths :
           ConfigManager(p) /\ UNCHANGED <<eh_vars, th_vars, retry_vars,
                                           rm_vars, ghost_vars>>
    \/ \E p \in ConfigPaths, f \in FileStates :
           write_file(p, f) /\ UNCHANGED <<eh_vars, th_vars, retry_vars,
                                           rm_vars, ghost_vars>>

\* ConfigManager objects built on configuration files that come and go
SpecConfig == Init /\ [][NextConfig]_vars

NextRMConcurrent ==
    \/ \E t \in FailureTypes, s \in 1 .. MaxSeverity :
           /\ concurrent.open => Len(concurrent.calls) < MaxEpisodeCalls
           /\ initiate_graceful_degradation(t, s)
           /\ record_call(InitiateCall(t, s))
           /\ UNCHANGED <<cm_vars, eh_vars, th_vars, retry_vars, unadjusted, operation>>
    \/ \E t \in FailureTypes :
           /\ concurrent.open => Len(concurrent.calls) < MaxEpisodeCalls
           /\ t \in SleepingTypes => InFlightCount < MaxInFlight
           /\ attempt_recovery(t)
           /\ record_call(AttemptCall(t))
           /\ UNCHANGED <<cm_vars, eh_vars, th_vars, retry_vars, unadjusted, operation>>
    \/ \E t \in SleepingTypes :
           /\ attempt_recovery_resume(t)
           /\ record_return
           /\ UNCHANGED <<cm_vars, eh_vars, th_vars, retry_vars, unadjusted, operation>>

\* initiate_graceful_degradation and attempt_recovery calls, some made
\* while others are suspended
SpecRMConcurrent == Init /\ [][NextRMConcurrent]_vars

\* the RecoveryManager's snapshot store
SpecSnap == Init /\ [][NextSnap]_vars

\* the arguments the decorators are given and the outcomes of the wrapped
\* operation's calls, one for each call the wrapper can make
NextRetry ==
    \/ \E max_retries \in (0 - 1) .. MaxRetries,
          base_delay \in 0 .. MaxBaseDelay,
          error_types \in ErrorTypeTuples :
         \E outcomes \in SeqsOfLen(CallOutcomes, max_retries + 1) :
           /\ call_wrappers(max_retries, base_delay, error_types, outcomes)
           /\ UNCHANGED <<cm_vars, eh_vars, th_vars, rm_vars,
                       ghost_vars>>
    \/ retry_with_backoff /\ UNCHANGED <<cm_vars, eh_vars, th_vars, rm_vars,
                       ghost_vars>>
    \/ async_retry_with_backoff /\ UNCHANGED <<cm_vars, eh_vars, th_vars, rm_vars,
                       ghost_vars>>
    \/ async_retry_wake /\ UNCHANGED <<cm_vars, eh_vars, th_vars, rm_vars,
                       ghost_vars>>

\* the two retry wrappers run on the same arguments
SpecRetry == Init /\ [][NextRetry]_vars

\* a step of retry_with_backoff's wrapper
SyncWrapperStep ==
    retry_with_backoff
        /\ UNCHANGED <<cm_vars, eh_vars, th_vars, rm_vars, ghost_vars>>

\* a step of async_retry_with_backoff's wrapper, or the end of its sleep
AsyncWrapperStep ==
    (async_retry_with_backoff \/ async_retry_wake)
        /\ UNCHANGED <<cm_vars, eh_vars, th_vars, rm_vars, ghost_vars>>

\* the wrappers run on: the thread of the synchronous one is not stopped,
\* the event loop resumes the coroutine and ends its sleeps
SpecRetryFair ==
    /\ Init
    /\ [][NextRetry]_vars
    /\ WF_vars(SyncWrapperStep)
    /\ WF_vars(AsyncWrapperStep)

(* ------------------------------- claims -------------------------------- *)

LastHandled == eh_last.op = "handle_error"

\* the errors of a category recorded within the trailing hour of time t
RecentCount(error_type, t) ==
    Cardinality({i \in 1 .. Len(history[error_type]) :
                    history[error_type][i] > t - Horizon})

\* C1: a handle_error call made while the category's breaker is open
\* returns False and does not invoke the recovery strategy.
C1_OpenBreakerSkipsRecovery ==
    (LastHandled /\ eh_last.open_before)
        => (~eh_last.ret /\ ~eh_last.recovery)

\* C2: every handle_error call of severity HIGH or CRITICAL invokes the
\* alert, on every path, the one where the breaker trips included.
C2_HighSeverityAlerts ==
    (LastHandled /\ eh_last.severity \in {"high", "critical"})
        => eh_last.alert

\* C3 as claimed: at every moment _should_circuit_break(C) is true iff the
\* number of C errors recorded within the trailing hour of the current time
\* is at least C's threshold.
C3_ShouldBreakAtEveryMoment ==
    \A c \in ErrorTypes :
        should_circuit_break(error_counts, config, c)
            <=> (RecentCount(c, now) >= error_threshold(config, c))

\* C3 as amended: when handle_error evaluates _should_circuit_break(C),
\* right after _update_error_tracking, the result is true iff the number of
\* C errors recorded within the trailing hour is at least C's threshold
\* (so it is false at threshold - 1).
C3_ShouldBreakInHandleError ==
    LastHandled =>
        (eh_last.tripped
            <=> (RecentCount(eh_last.type, now)
                    >= error_threshold(config, eh_last.type)))

\* C3 witness: a call that finds threshold - 1 errors in the trailing hour,
\* older ones having aged out, and does not trip.
C3_Witness ==
    /\ LastHandled
    /\ ~eh_last.tripped
    /\ RecentCount(eh_last.type, now)
           = error_threshold(config, eh_last.type) - 1
    /\ Len(history[eh_last.type]) >= error_threshold(config, eh_last.type)

\* C4: degradation_level is within [0, 5].
C4_LevelInRange == degradation_level \in 0 .. MaxLevel

\* C5: recovery_state is EMERGENCY iff degradation_level is 5.
C5_EmergencyIffLevelFive ==
    (recovery_state = "emergency") <=> (degradation_level = MaxLevel)

\* C6: recovery_state is DEGRADED iff degradation_level is at least 3 and
\* no attempt_recovery call is in flight.
C6_DegradedIffLevelThree ==
    (recovery_state = "degraded")
        <=> (degradation_level >= DegradedLevel /\ InFlight = {})

\* C7: NORMAL implies level 0 and no attempt in flight; RECOVERY implies an
\* attempt_recovery call is in flight.
C7_StateDerived ==
    /\ recovery_state = "normal" => (degradation_level = 0 /\ InFlight = {})
    /\ recovery_state = "recovery" => InFlight # {}

LastAttempt == rm_last.op = "attempt_recovery"

\* C8: after a successful attempt_recovery the level is the old level less
\* one, not below 0, and the state is NORMAL at level 0 and DEGRADED
\* otherwise.
C8_SuccessDecrements ==
    (LastAttempt /\ rm_last.success) =>
        /\ degradation_level = Max(0, rm_last.level_before - 1)
        /\ recovery_state =
               IF degradation_level = 0 THEN "normal" ELSE "degraded"

\* C9: a failed attempt_recovery returns False, leaves the level unchanged
\* and the state DEGRADED, or EMERGENCY at level 5.
C9_FailureRestoresState ==
    (LastAttempt /\ ~rm_last.success) =>
        /\ ~rm_last.ret
        /\ degradation_level = rm_last.level_before
        /\ recovery_state =
               IF degradation_level = MaxLevel THEN "emergency"
               ELSE "degraded"

\* C10: attempt_recovery for trading_halt and system_overload returns False
\* and never decreases the level.
C10_ConservativeStrategiesFail ==
    (LastAttempt /\ rm_last.failure_type \in {"trading_halt", "system_overload"})
        => (~rm_last.ret /\ degradation_level >= rm_last.level_before)

\* C11: an emergency_shutdown call made while recovery_state is already
\* EMERGENCY persists no snapshot, so two calls in a row write the last
\* snapshot once.
C11_SecondShutdownPersistsNothing ==
    (rm_last.op = "emergency_shutdown" /\ rm_last.state_before = "emergency")
        => ~rm_last.wrote

\* C12: once emergency_shutdown has been invoked, recovery_state is
\* EMERGENCY in every later state.
C12_EmergencyIsTerminal ==
    shutdown_invoked => recovery_state = "emergency"

\* C13: an attempt_recovery call that is suspended in its strategy's wait
\* when emergency_shutdown is invoked does not, as the step after the
\* shutdown, run to the end of the wait, report success and decrement
\* degradation_level.
C13_ShutdownAbortsSuspendedAttempt ==
    [][(rm_last.op = "emergency_shutdown" /\ InFlight # {})
          => ~(/\ rm_last'.op = "attempt_recovery"
               /\ rm_last'.failure_type \in InFlight
               /\ rm_last'.success
               /\ degradation_level' < degradation_level)]_vars

\* C14: is_circuit_breaker_active(C) returns False and changes nothing when
\* C has no entry (also after an earlier call removed it); with an entry it
\* returns True and keeps the entry while now - activated_at <= duration,
\* and otherwise removes the entry (logging the reset) and returns False.
C14_BreakerActiveSemantics ==
    [][eh_last'.op = "is_circuit_breaker_active" =>
          LET c == eh_last'.type
          IN  IF c \notin DOMAIN circuit_breakers
              THEN /\ ~eh_last'.ret
                   /\ ~eh_last'.removed
                   /\ circuit_breakers' = circuit_breakers
              ELSE IF now - circuit_breakers[c].activated_at
                         <= circuit_breakers[c].duration
              THEN /\ eh_last'.ret
                   /\ ~eh_last'.removed
                   /\ circuit_breakers' = circuit_breakers
              ELSE /\ ~eh_last'.ret
                   /\ eh_last'.removed
                   /\ c \notin DOMAIN circuit_breakers'
                   /\ \A k \in DOMAIN circuit_breakers \ {c} :
                          /\ k \in DOMAIN circuit_breakers'
                          /\ circuit_breakers'[k] = circuit_breakers[k]]_vars

\* C14 witness: a call past the cool-down has removed the entry and
\* returned False.
C14_Witness ==
    /\ eh_last.op = "is_circuit_breaker_active"
    /\ eh_last.removed
    /\ ~eh_last.ret
    /\ eh_last.type \notin DOMAIN circuit_breakers

\* every call of the wrapped operation made so far by a wrapper call w
\* raised an error
EveryCallFailed(w) ==
    \A k \in 1 .. w.calls : retry_args.outcomes[k] # "return"

\* the wrapped operation fails on every call with an error the wrapper
\* retries
AlwaysFailing ==
    \A k \in 1 .. Len(retry_args.outcomes) :
        /\ retry_args.outcomes[k] # "return"
        /\ IsInstance(retry_args.outcomes[k], retry_args.error_types)

\* C15: on an operation that fails on every call retry_with_backoff makes
\* max_retries + 1 calls, sleeps base_delay * 2^(k-1) before retry k
\* (k = 1..max_retries) and does not sleep after the last failed call;
\* with max_retries = 3 and base_delay = 1 that is 4 calls and the delays
\* 1, 2, 4.
C15_AlwaysFailingBackoff ==
    (sync_wrapper.pc # "idle" /\ AlwaysFailing) =>
        /\ \A k \in 1 .. Len(sync_wrapper.delays) :
               sync_wrapper.delays[k] = retry_args.base_delay * (2 ^ (k - 1))
        /\ Len(sync_wrapper.delays)
               = Min(sync_wrapper.calls, Max(retry_args.max_retries, 0))
        /\ sync_wrapper.pc = "done" =>
               /\ sync_wrapper.calls = retry_args.max_retries + 1
               /\ Len(sync_wrapper.delays) = Max(retry_args.max_retries, 0)
               /\ (/\ retry_args.max_retries = DefaultMaxRetries
                   /\ retry_args.base_delay = DefaultBaseDelay)
                      => (/\ sync_wrapper.calls = 4
                          /\ sync_wrapper.delays = <<1, 2, 4>>)

\* C15 witness: the default policy has run to exhaustion on an operation
\* that always fails.
C15_Witness ==
    /\ sync_wrapper.pc = "done"
    /\ AlwaysFailing
    /\ retry_args.max_retries = DefaultMaxRetries
    /\ retry_args.base_delay = DefaultBaseDelay
    /\ sync_wrapper.delays = <<1, 2, 4>>

\* the error object raised by the last call of the wrapped operation that
\* a wrapper call w made
FinalError(w) == [class |-> retry_args.outcomes[w.calls], id |-> w.calls]

\* C16: for every max_retries >= 0, a wrapper call (of either decorator)
\* whose every attempt failed ends by raising the error object of its final
\* attempt, never by returning a value or raising another error.
C16_RaisesFinalError ==
    \A w \in {sync_wrapper, async_wrapper} :
        (w.pc = "done" /\ retry_args.max_retries >= 0 /\ EveryCallFailed(w))
            => (w.calls >= 1 /\ w.outcome = Raised(FinalError(w)))

\* C16 witness: both wrappers have exhausted at least one retry and raised
\* the error of their last attempt.
C16_Witness ==
    /\ sync_wrapper.pc = "done"
    /\ async_wrapper.pc = "done"
    /\ retry_args.max_retries >= 1
    /\ AlwaysFailing
    /\ sync_wrapper.outcome = Raised(FinalError(sync_wrapper))
    /\ async_wrapper.outcome = Raised(FinalError(async_wrapper))
    /\ sync_wrapper.calls = retry_args.max_retries + 1

\* C17: on the same max_retries, base_delay, error_types and outcomes of
\* the wrapped operation, retry_with_backoff and async_retry_with_backoff
\* make the same number of calls, wait the same delays and end with the
\* same result or the same raised error.
C17_SyncAsyncEquivalent ==
    (sync_wrapper.pc = "done" /\ async_wrapper.pc = "done") =>
        /\ sync_wrapper.calls = async_wrapper.calls
        /\ sync_wrapper.delays = async_wrapper.delays
        /\ sync_wrapper.outcome = async_wrapper.outcome

\* C17 witness: both wrappers have retried twice and returned the third
\* call's value.
C17_Witness ==
    /\ sync_wrapper.pc = "done"
    /\ async_wrapper.pc = "done"
    /\ sync_wrapper.calls = 3
    /\ Len(async_wrapper.delays) = 2
    /\ retry_args.base_delay > 0
    /\ async_wrapper.outcome = Returned(3)

LastLoad == rm_last.op = "load_latest_snapshot"

\* C18: the snapshot load_latest_snapshot returns right after
\* create_system_snapshot (the file being read and parsed) equals the
\* created snapshot field for field.
C18_SnapshotRoundTrip ==
    [][(/\ rm_last.op = "create_system_snapshot"
        /\ rm_last'.op = "load_latest_snapshot"
        /\ rm_last'.fault = "none")
          => rm_last'.snapshot = rm_last.snapshot]_vars

\* C19: load_latest_snapshot never raises; it returns None when there is no
\* snapshot file and when the selected file cannot be read or parsed.
C19_LoadNeverRaises ==
    LastLoad =>
        /\ ~rm_last.raised
        /\ DOMAIN files = {} => rm_last.snapshot = NoSnapshot
        /\ rm_last.fault # "none" => rm_last.snapshot = NoSnapshot

\* C19 witness: a snapshot file exists, reading it failed, and
\* load_latest_snapshot returned None.
C19_Witness ==
    /\ LastLoad
    /\ DOMAIN files # {}
    /\ rm_last.fault \in LoadFaults
    /\ rm_last.snapshot = NoSnapshot
    /\ ~rm_last.raised

\* C20: after any create_system_snapshot and emergency_shutdown calls,
\* load_latest_snapshot (the file being read and parsed) returns the
\* snapshot held in last_snapshot, that of the most recent
\* create_system_snapshot call, and never an older one.
C20_LoadReturnsLastSnapshot ==
    (LastLoad /\ rm_last.fault = "none" /\ last_snapshot # NoSnapshot)
        => rm_last.snapshot.timestamp = last_snapshot.timestamp

\* the file a _persist_snapshot call of this step wrote: that of the
\* snapshot created, or of last_snapshot when emergency_shutdown wrote it
written_file ==
    IF rm_last'.op = "create_system_snapshot"
    THEN snapshot_filename(rm_last'.snapshot)
    ELSE snapshot_filename(last_snapshot)

\* C21: snapshot persistence is append-only: no _persist_snapshot call,
\* from create_system_snapshot or from emergency_shutdown, writes to a file
\* name that already holds a persisted snapshot.
C21_PersistIsAppendOnly ==
    [][(/\ rm_last'.op \in {"create_system_snapshot", "emergency_shutdown"}
        /\ rm_last'.wrote)
          => written_file \notin DOMAIN files]_vars

LastInitiate == rm_last.op = "initiate_graceful_degradation"

\* C22: initiate_graceful_degradation(failure_type, s) sets the level to
\* min(old level + s, 5) and leaves the state EMERGENCY at level 5,
\* DEGRADED at level 3 or 4 and unchanged below 3; so calls with s = 1 from
\* level 0 reach 1, 2, 3 and the state becomes DEGRADED with the third.
C22_InitiateSetsLevelAndState ==
    LastInitiate =>
        /\ degradation_level
               = Min(rm_last.level_before + rm_last.severity, MaxLevel)
        /\ degradation_level = MaxLevel => recovery_state = "emergency"
        /\ degradation_level \in {3, 4} => recovery_state = "degraded"
        /\ degradation_level < 3 => recovery_state = rm_last.state_before
        /\ (rm_last.severity = 1 /\ rm_last.state_before = "normal")
              => (recovery_state = "degraded"
                     <=> rm_last.level_before \in {2, 3})

\* C22 witness: the call with s = 1 at level 2 in state NORMAL has brought
\* the level to 3 and the state to DEGRADED.
C22_Witness ==
    /\ LastInitiate
    /\ rm_last.severity = 1
    /\ rm_last.level_before = 2
    /\ rm_last.state_before = "normal"
    /\ degradation_level = 3
    /\ recovery_state = "degraded"

\* every timestamp of category c's window is within the trailing hour of
\* time t, and the window is as long as the number of c errors of that hour
WindowWithinHorizon(c, t) ==
    /\ \A i \in 1 .. Len(error_counts[c]) : error_counts[c][i] > t - Horizon
    /\ Len(error_counts[c]) = RecentCount(c, t)

CountAt(w, c, t) ==
    Cardinality({i \in 1 .. Len(Get(w, c, <<>>)) : w[c][i] = t})

\* C24: every handle_error call for category C records the error: on
\* return C's window holds one more timestamp of the current time than
\* before, whichever branch was taken and also when logging the error
\* fails.
C24_EveryErrorRecorded ==
    [][eh_last'.op = "handle_error"
          => CountAt(error_counts', eh_last'.type, now)
                 = CountAt(error_counts, eh_last'.type, now) + 1]_vars

AllThreadsDone == \A i \in 1 .. NumThreads : threads[i].pc = "done"

\* C26: parallel handle_error calls for one category are linearized: when
\* the N calls have returned, the category's window holds N timestamps and
\* the breaker has been activated iff it would have been by the N calls
\* made one after the other.
C26_ParallelCallsLinearized ==
    AllThreadsDone =>
        /\ Len(error_counts[ThreadCategory]) = NumThreads
        /\ ThreadCategory \in DOMAIN circuit_breakers
               <=> NumThreads >= error_threshold(config, ThreadCategory)

\* C27: when every attempt_recovery call that was suspended has returned,
\* level and state are what the calls made since the first suspension give
\* when run one after the other in some order.
C27_InterleavingIsSequential ==
    concurrent.closed =>
        <<degradation_level, recovery_state>> \in SequentialResults(concurrent)

\* what a dict holds under key k
Entry(d, k) == IF k \in DOMAIN d THEN <<d[k]>> ELSE <<>>

\* the errors of category c in h at most an hour old at time t
RecordedWithin(h, c, t) ==
    Cardinality({i \in 1 .. Len(h[c]) : h[c][i] > t - Horizon})

\* C28: a handle_error call for category A leaves the window, the breaker
\* entry and the last error of every other category as they were, and its
\* outcome follows from A's own errors: the breaker trips exactly when A's
\* errors of the last hour reach A's threshold, and recovery runs exactly
\* when it does not trip.
C28_CategoriesAreIsolated ==
    [][eh_last'.op = "handle_error" =>
          /\ \A B \in ErrorTypes \ {eh_last'.type} :
                /\ Entry(error_counts', B) = Entry(error_counts, B)
                /\ Entry(circuit_breakers', B) = Entry(circuit_breakers, B)
                /\ Entry(last_errors', B) = Entry(last_errors, B)
                /\ history'[B] = history[B]
          /\ eh_last'.tripped =
                (RecordedWithin(history', eh_last'.type, now)
                    >= error_threshold(config, eh_last'.type))
          /\ eh_last'.recovery = ~eh_last'.tripped]_vars

\* the NETWORK breaker is open and a MODEL error has just been handled
\* with its recovery strategy
C28_Witness ==
    /\ BreakerOpen(circuit_breakers, "network_error", now)
    /\ LastHandled
    /\ eh_last.type = "model_error"
    /\ eh_last.recovery
    /\ "model_error" \notin DOMAIN circuit_breakers

\* C29: a call of _should_circuit_break changes neither circuit_breakers
\* nor any error window, and creates no window.
C29_ShouldCircuitBreakReadOnly ==
    [][eh_last'.op = "should_circuit_break" =>
          /\ circuit_breakers' = circuit_breakers
          /\ error_counts' = error_counts]_vars

\* _should_circuit_break has been called for a category without a window
\* on a handler that holds windows
C29_Witness ==
    /\ eh_last.op = "should_circuit_break"
    /\ eh_last.type \notin DOMAIN error_counts
    /\ DOMAIN error_counts # {}

\* C30: with the wall clock set forwards or backwards between the calls,
\* is_circuit_breaker_active returns what it returns on a clock nobody
\* sets, and _update_error_tracking keeps as many timestamps as it keeps
\* there.
C30_ClockAdjustmentChangesNothing ==
    /\ eh_last.op = "is_circuit_breaker_active" =>
          eh_last.ret = unadjusted.ret
    /\ LastHandled =>
          Len(error_counts[eh_last.type])
              = Len(unadjusted.error_counts[eh_last.type])

\* the categories whose recovery strategy reports failure by policy
ConservativeCategories == {"trading_error", "system_error"}

\* C31: the result of a handle_error call in which nothing raises is False
\* when the call trips the breaker, and otherwise False for TRADING_ERROR
\* and SYSTEM_ERROR and True for the five other categories.
C31_ResultFixedByCategory ==
    LastHandled =>
        eh_last.ret = (~eh_last.tripped
                       /\ eh_last.type \notin ConservativeCategories)

\* a TRADING error below the threshold has been handled: recovery was
\* attempted and the call returned False
C31_Witness ==
    /\ LastHandled
    /\ eh_last.type = "trading_error"
    /\ ~eh_last.tripped
    /\ eh_last.recovery
    /\ ~eh_last.ret

\* the operations that own degradation_level and recovery_state
OwningOperations ==
    {"initiate_graceful_degradation", "attempt_recovery",
     "emergency_shutdown"}

\* C32: a step of any operation other than initiate_graceful_degradation,
\* attempt_recovery and emergency_shutdown leaves degradation_level and
\* recovery_state as they were.
C32_LevelAndStateOwned ==
    [][operation' \notin OwningOperations =>
          /\ degradation_level' = degradation_level
          /\ recovery_state' = recovery_state]_vars

\* the RecoveryManager is degraded and the last call has been a snapshot,
\* a status or an ErrorHandler call
C32_Witness ==
    /\ operation \in {"create_system_snapshot", "load_latest_snapshot",
                      "get_recovery_status", "handle_error"}
    /\ degradation_level >= DegradedLevel
    /\ recovery_state = "degraded"

\* C33: ConfigManager(config_path) returns or raises ConfigurationError,
\* and raises ConfigurationError when the file is missing or is not JSON.
C33_OnlyConfigurationError ==
    cm_last.op = "__init__" =>
        /\ cm_last.raised \in {"None", "ConfigurationError"}
        /\ cm_last.file \in {"missing", "not_json"} =>
              cm_last.raised = "ConfigurationError"

\* the timestamps of window w that are at most an hour old at time t
PrunedCount(w, t) ==
    Cardinality({i \in 1 .. Len(w) : w[i] > t - Horizon})

\* C34: a handle_error call for category C made while C's breaker is open
\* appends its timestamp to C's window: the window then holds the old
\* timestamps that are at most an hour old and the new one.
C34_WindowAccumulatesWhileOpen ==
    [][(eh_last'.op = "handle_error" /\ eh_last'.open_before) =>
          LET c == eh_last'.type
              window == error_counts'[c]
          IN  /\ Len(window) = PrunedCount(error_counts[c], now) + 1
              /\ window[Len(window)] = now]_vars

\* an error has been handled while the breaker was open, and the window
\* holds more timestamps than the threshold, older ones having been pruned
C34_Witness ==
    /\ LastHandled
    /\ eh_last.open_before
    /\ Len(error_counts[eh_last.type])
           > error_threshold(config, eh_last.type)
    /\ Len(error_counts[eh_last.type]) < Len(history[eh_last.type])

\* C35: a handle_error call in which nothing raises activates the breaker
\* exactly when the window, the current error recorded, holds at least the
\* threshold: that call sets the entry's activated_at to the current time,
\* returns False and attempts no recovery; a call below the threshold
\* leaves the category's entry as it was, so no entry exists before the
\* errors have reached the threshold.
C35_TripsAtThreshold ==
    [][eh_last'.op = "handle_error" =>
          LET c == eh_last'.type
              reached == Len(error_counts'[c]) >= error_threshold(config, c)
          IN  /\ eh_last'.tripped = reached
              /\ reached =>
                    /\ ~eh_last'.ret
                    /\ ~eh_last'.recovery
                    /\ c \in DOMAIN circuit_breakers'
                    /\ circuit_breakers'[c].activated_at = now
              /\ ~reached =>
                    Entry(circuit_breakers', c) = Entry(circuit_breakers, c)
              /\ Len(history'[c]) < error_threshold(config, c) =>
                    c \notin DOMAIN circuit_breakers']_vars

\* with the default threshold the fifth error has tripped the breaker
C35_Witness ==
    /\ LastHandled
    /\ config = EmptyDict
    /\ eh_last.tripped
    /\ Len(history[eh_last.type]) = DefaultThreshold
    /\ eh_last.type \in DOMAIN circuit_breakers

\* the times at which a handle_error call for category c found the window
\* at or above the threshold
ActivationTimes(c) ==
    {history[c][i] : i \in
        {k \in 1 .. Len(history[c]) :
            Cardinality({j \in 1 .. k :
                            history[c][j] > history[c][k] - Horizon})
                >= error_threshold(config, c)}}

LatestActivation(c) ==
    CHOOSE t \in ActivationTimes(c) : \A u \in ActivationTimes(c) : u <= t

\* the breaker entry of category c is that of the latest activation
ActivatedAtLatest(c) ==
    c \in DOMAIN circuit_breakers =>
        /\ ActivationTimes(c) # {}
        /\ circuit_breakers[c].activated_at = LatestActivation(c)
        /\ circuit_breakers[c].duration = CoolDown(config)

\* is_circuit_breaker_active(c) has returned True exactly within the
\* cool-down of the latest activation
ActiveWithinCoolDown(c) ==
    (eh_last.op = "is_circuit_breaker_active" /\ eh_last.type = c) =>
        (eh_last.ret <=>
            /\ ActivationTimes(c) # {}
            /\ now - LatestActivation(c) <= CoolDown(config))

\* is_circuit_breaker_active(c) has returned False and c has no entry
ReportedClosed(c) ==
    /\ eh_last.op = "is_circuit_breaker_active"
    /\ eh_last.type = c
    /\ ~eh_last.ret
    /\ c \notin DOMAIN circuit_breakers

\* C36: a breaker entry holds the time of the latest handle_error call at
\* or above the threshold and the configured cool-down;
\* is_circuit_breaker_active returns True up to the cool-down after that
\* time and False later; and with time passing and the breaker being asked,
\* a breaker that is open is eventually reported closed.
C36_ClosesAfterCoolDown ==
    /\ [](ActivatedAtLatest(PollCategory)
          /\ ActiveWithinCoolDown(PollCategory))
    /\ (PollCategory \in DOMAIN circuit_breakers)
           ~> ReportedClosed(PollCategory)

\* a breaker activated more than once has been reported closed, later than
\* the cool-down after its first activation would have ended
C36_Witness ==
    /\ ReportedClosed(PollCategory)
    /\ eh_last.removed
    /\ Cardinality(ActivationTimes(PollCategory)) >= 2
    /\ \E t \in ActivationTimes(PollCategory) :
           t + CoolDown(config) < LatestActivation(PollCategory)

\* call k of the wrapped operation is its first success, and the wrapper
\* retries the errors of the calls before it
FirstSuccess(k) ==
    /\ k \in 1 .. Len(retry_args.outcomes)
    /\ retry_args.outcomes[k] = "return"
    /\ \A j \in 1 .. k - 1 :
          /\ retry_args.outcomes[j] # "return"
          /\ IsInstance(retry_args.outcomes[j], retry_args.error_types)

\* wrapper call w makes at most max_retries + 1 calls; when the wrapped
\* operation first succeeds on call k it ends after exactly k calls and
\* k - 1 delays with that call's result, and it returns no other value
StopsAtFirstSuccess(w) ==
    /\ w.calls <= Max(retry_args.max_retries + 1, 0)
    /\ w.pc = "done" =>
          /\ \A k \in 1 .. Len(retry_args.outcomes) :
                FirstSuccess(k) =>
                    /\ w.calls = k
                    /\ Len(w.delays) = k - 1
                    /\ w.outcome = Returned(k)
          /\ w.outcome.kind = "return" => FirstSuccess(w.calls)

\* C37: both retry wrappers stop at the first success (exactly k calls and
\* k - 1 delays when call k succeeds first, returning its result), never
\* make more than max_retries + 1 calls, and a wrapper that has been called
\* ends.
C37_RetryLoopTerminates ==
    /\ [](StopsAtFirstSuccess(sync_wrapper)
          /\ StopsAtFirstSuccess(async_wrapper))
    /\ (sync_wrapper.pc = "running") ~> (sync_wrapper.pc = "done")
    /\ (async_wrapper.pc = "running") ~> (async_wrapper.pc = "done")

\* both wrappers have stopped at the success of the second call, with
\* retries left
C37_Witness ==
    /\ sync_wrapper.pc = "done"
    /\ async_wrapper.pc = "done"
    /\ retry_args.max_retries >= 2
    /\ sync_wrapper.calls = 2
    /\ async_wrapper.calls = 2
    /\ Len(sync_wrapper.delays) = 1
    /\ sync_wrapper.outcome = Returned(2)
    /\ async_wrapper.outcome = Returned(2)

\* C38: _recover_from_network_error sleeps min(2^retry_count, 60) for the
\* retry_count of the error record, 1 when the record has none, and so
\* never more than 60; it returns True.
C38_NetworkBackoffCapped ==
    eh_last.op = "recover_from_network_error" =>
        LET retry_count == IF "retry_count" \in DOMAIN eh_last.info
                           THEN eh_last.info.retry_count ELSE 0
        IN  /\ eh_last.slept = Min(2 ^ retry_count, MaxNetworkDelay)
            /\ eh_last.slept <= MaxNetworkDelay
            /\ "retry_count" \notin DOMAIN eh_last.info => eh_last.slept = 1
            /\ eh_last.ret

\* the strategy has been called with a retry_count whose power of two
\* exceeds the cap, and has slept the cap
C38_Witness ==
    /\ eh_last.op = "recover_from_network_error"
    /\ "retry_count" \in DOMAIN eh_last.info
    /\ 2 ^ eh_last.info.retry_count > MaxNetworkDelay
    /\ eh_last.slept = MaxNetworkDelay

\* C39: every category get_system_health reports in
\* active_circuit_breakers has an open breaker at that moment: an entry
\* whose cool-down has not elapsed.
C39_HealthReportsOpenBreakers ==
    eh_last.op = "get_system_health" =>
        \A c \in eh_last.health.active_circuit_breakers :
            BreakerOpen(circuit_breakers, c, now)

\* C40: a create_system_snapshot call in which an accessor or the write of
\* _persist_snapshot fails returns no snapshot and leaves last_snapshot as
\* it was; a call that returns has set last_snapshot to a snapshot held in
\* storage.
C40_LastSnapshotIsStored ==
    [][rm_last'.op = "create_system_snapshot" =>
          IF rm_last'.wrote /\ rm_last'.fault = "none"
          THEN /\ last_snapshot' = rm_last'.snapshot
               /\ snapshot_filename(last_snapshot') \in DOMAIN files'
          ELSE /\ ~rm_last'.ret
               /\ last_snapshot' = last_snapshot]_vars

====
